---------------------------- MODULE Spec2Model ----------------------------
(***************************************************************************)
(* Model of script.js, the client-side behaviour of the portfolio page:    *)
(* the UI state object, the mobile menu, the case-study modal, the         *)
(* throttle/debounce helpers, the active-section highlighting, the         *)
(* contact form with its validation and simulated submission, documents    *)
(* that lack optional elements, and the manual smooth scroll.              *)
(*                                                                         *)
(* Handlers run to completion on the browser's event loop, so one event    *)
(* (with all the listeners it reaches) is one action.  A JavaScript        *)
(* string is a sequence of one-character strings.  null and undefined are  *)
(* the strings "null" and "undefined".                                     *)
(***************************************************************************)
EXTENDS Integers, Sequences, FiniteSets, TLC

VARIABLES
    state,          \* the `state` object (script.js:33-38)
    DOM,            \* what the handlers write on the cached elements
    bodyOverflow,   \* document.body.style.overflow
    lastEvent,      \* the event dispatched last
    prev,           \* the UI as it was before that event
    now,            \* clock of the timer specifications, in ms
    inThrottle,     \* throttle's closure variable
    timers,         \* pending setTimeout callbacks
    timeoutId,      \* debounce's closure variable
    nextTimerId,    \* the id the next setTimeout returns
    calls,          \* calls made to the wrapper so far
    fnLog,          \* invocations of the wrapped function so far
    data,           \* the object handed to validateForm
    errors,         \* the array validateForm returned
    vpc,            \* position of the validation run
    page,           \* the document's sections and nav links
    scrollY,        \* window.scrollY
    activeLinks,    \* the nav links that carry 'active'
    form,           \* the contact form: fields, message nodes, button, log
    submissions,    \* the submit events handled so far
    completions,    \* the form as each simulated submission left it
    banners,        \* the success banners shown so far
    present,        \* the optional host elements the document holds
    threw,          \* the error the last event's listeners raised, if any
    anim            \* the closure of smoothScrollTo and what it scrolled last

uiVars == << state, DOM, bodyOverflow, lastEvent, prev >>
timerVars == << now, inThrottle, timers, timeoutId, nextTimerId, calls, fnLog >>
formVars == << data, errors, vpc >>
navVars == << page, scrollY, activeLinks >>
contactVars == << form, submissions, completions, banners >>
hostVars == << present, threw >>
otherVars == << navVars, contactVars, hostVars, anim >>
vars == << state, DOM, bodyOverflow, lastEvent, prev,
                now, inThrottle, timers, timeoutId, nextTimerId, calls, fnLog,
                data, errors, vpc, page, scrollY, activeLinks,
                form, submissions, completions, banners, present, threw, anim >>

(***************************************************************************)
(* The case-study table of loadCaseStudyContent                            *)
(***************************************************************************)
cs_fintech_rebrand ==
    [ title     |-> "Rebranding para Startup de Fintech",
      client    |-> "TechFinance Startup",
      duration  |-> "3 meses",
      role      |-> "Lead Designer & Brand Strategist",
      objective |-> "Reposicionar la marca para aumentar la confianza del usuario y triplicar las conversiones",
      problem   |-> "La startup tenía una identidad visual inconsistente que no transmitía confianza en el sector financiero, resultando en bajas tasas de conversión y poca diferenciación en el mercado.",
      process   |->
        << "Análisis de mercado y competencia",
           "Research de usuarios y pain points",
           "Desarrollo de estrategia de marca",
           "Creación de identidad visual completa",
           "Diseño de sistema de diseño",
           "Implementación en todos los touchpoints" >>,
      solution  |-> "Desarrollé una identidad visual moderna y confiable que comunica estabilidad financiera a través de colores corporativos, tipografía profesional y elementos gráficos que transmiten transparencia y seguridad.",
      results   |->
        << "300% incremento en conversiones",
           "85% mejora en reconocimiento de marca",
           "40% reducción en costo de adquisición",
           "95% satisfacción del cliente" >>,
      image     |-> "https://picsum.photos/600/400?random=1" ]

cs_ecommerce_app ==
    [ title     |-> "App Móvil E-commerce",
      client    |-> "RetailPlus",
      duration  |-> "4 meses",
      role      |-> "UX/UI Designer",
      objective |-> "Rediseñar la experiencia de compra móvil para reducir el abandono del carrito y aumentar las ventas",
      problem   |-> "La app móvil tenía una tasa de abandono del carrito del 70% debido a una experiencia de usuario confusa y procesos de compra complejos.",
      process   |->
        << "Audit de UX existente",
           "User research y entrevistas",
           "Mapeo de customer journey",
           "Wireframing y prototipado",
           "Testing de usabilidad",
           "Diseño de interfaz final" >>,
      solution  |-> "Creé una experiencia de compra simplificada con checkout en un solo paso, navegación intuitiva y elementos visuales que guían al usuario hacia la conversión.",
      results   |->
        << "35% reducción en abandono del carrito",
           "50% incremento en ventas móviles",
           "4.8/5 rating en app stores",
           "60% mejora en tiempo de checkout" >>,
      image     |-> "https://picsum.photos/600/400?random=2" ]

cs_corporate_campaign ==
    [ title     |-> "Campaña Corporativa Multichannel",
      client    |-> "GlobalCorp",
      duration  |-> "2 meses",
      role      |-> "Creative Director",
      objective |-> "Unificar la comunicación de marca en todos los touchpoints para mejorar el reconocimiento y la coherencia",
      problem   |-> "La empresa tenía múltiples canales de comunicación con mensajes inconsistentes y diseño fragmentado, afectando la percepción de marca.",
      process   |->
        << "Audit de marca existente",
           "Desarrollo de guidelines",
           "Creación de assets multichannel",
           "Diseño de templates",
           "Capacitación de equipos",
           "Implementación coordinada" >>,
      solution  |-> "Desarrollé un sistema de comunicación unificado con guidelines claras, templates reutilizables y una identidad visual consistente en todos los canales.",
      results   |->
        << "90% consistencia en comunicación",
           "45% mejora en reconocimiento de marca",
           "30% reducción en tiempo de producción",
           "100% adopción por parte de equipos" >>,
      image     |-> "https://picsum.photos/600/400?random=3" ]

cs_saas_dashboard ==
    [ title     |-> "Dashboard SaaS B2B",
      client    |-> "DataAnalytics Pro",
      duration  |-> "5 meses",
      role      |-> "Product Designer",
      objective |-> "Rediseñar la interfaz compleja para mejorar la usabilidad y reducir el tiempo de onboarding",
      problem   |-> "El dashboard tenía una curva de aprendizaje muy alta, con usuarios abandonando la plataforma en las primeras semanas debido a la complejidad de la interfaz.",
      process   |->
        << "Análisis de datos de uso",
           "User interviews y surveys",
           "Information architecture",
           "Wireframing y prototipado",
           "Usability testing iterativo",
           "Diseño de sistema de componentes" >>,
      solution  |-> "Simplifiqué la interfaz agrupando funcionalidades relacionadas, creé un sistema de navegación intuitivo y desarrollé un onboarding progresivo.",
      results   |->
        << "50% reducción en tiempo de onboarding",
           "70% mejora en task completion rate",
           "4.5/5 satisfacción del usuario",
           "40% reducción en tickets de soporte" >>,
      image     |-> "https://picsum.photos/600/400?random=4" ]

cs_sustainable_packaging ==
    [ title     |-> "Packaging Sostenible",
      client    |-> "EcoProducts",
      duration  |-> "2 meses",
      role      |-> "Packaging Designer",
      objective |-> "Crear packaging que comunique valores sostenibles y aumente las ventas en el segmento eco-conscious",
      problem   |-> "El packaging actual no comunicaba los valores sostenibles de la marca, perdiendo oportunidades en el mercado eco-friendly en crecimiento.",
      process   |->
        << "Research de mercado eco-friendly",
           "Análisis de materiales sostenibles",
           "Desarrollo de conceptos visuales",
           "Prototipado y testing",
           "Optimización para producción",
           "Implementación en línea de productos" >>,
      solution  |-> "Diseñé un sistema de packaging que combina materiales sostenibles con una identidad visual que comunica claramente los valores ecológicos de la marca.",
      results   |->
        << "60% incremento en ventas eco-segment",
           "85% mejora en percepción sostenible",
           "30% reducción en costos de packaging",
           "Premio de diseño sostenible 2024" >>,
      image     |-> "https://picsum.photos/600/400?random=5" ]

cs_brand_identity ==
    [ title     |-> "Identidad de Marca Completa",
      client    |-> "InnovateTech",
      duration  |-> "3 meses",
      role      |-> "Brand Designer",
      objective |-> "Desarrollar identidad visual desde cero para posicionar la empresa como líder en su sector",
      problem   |-> "La startup necesitaba una identidad visual profesional que comunicara innovación y confiabilidad para competir en el mercado tecnológico.",
      process   |->
        << "Brand strategy y positioning",
           "Desarrollo de conceptos creativos",
           "Diseño de logo y variaciones",
           "Creación de manual de marca",
           "Diseño de aplicaciones",
           "Implementación en todos los touchpoints" >>,
      solution  |-> "Creé una identidad visual moderna y escalable que comunica innovación tecnológica a través de elementos gráficos dinámicos y una paleta de colores distintiva.",
      results   |->
        << "100% reconocimiento de marca en 6 meses",
           "200% incremento en leads calificados",
           "Premio a mejor identidad corporativa",
           "Expansión a 3 mercados internacionales" >>,
      image     |-> "https://picsum.photos/600/400?random=6" ]

caseStudies ==
    ("fintech-rebrand" :> cs_fintech_rebrand)
    @@ ("ecommerce-app" :> cs_ecommerce_app)
    @@ ("corporate-campaign" :> cs_corporate_campaign)
    @@ ("saas-dashboard" :> cs_saas_dashboard)
    @@ ("sustainable-packaging" :> cs_sustainable_packaging)
    @@ ("brand-identity" :> cs_brand_identity)

CaseStudyKeys == DOMAIN caseStudies

\* The project ids a card can carry in data-project: the six keys, an id that
\* is no property at all, a card without the attribute (undefined), and a
\* name every object inherits from Object.prototype.
InheritedNames == { "constructor" }
ProjectIds == CaseStudyKeys \cup { "unknown-project", "undefined" } \cup InheritedNames

\* caseStudies[projectId] as JavaScript evaluates it.
lookupCaseStudy(projectId) ==
    IF projectId \in CaseStudyKeys THEN [ kind |-> "record", id |-> projectId ]
    ELSE IF projectId \in InheritedNames THEN [ kind |-> "inherited", id |-> projectId ]
    ELSE [ kind |-> "undefined", id |-> projectId ]

\* The template literal of loadCaseStudyContent: the elements in document
\* order, each with its class or tag and the interpolated texts.
caseStudyHTML(project) ==
    << << "div", "case-study-header" >>,
       << "img", "case-study-image", project.image, project.title >>,
       << "h1", project.title >>,
       << "div", "info-item", "Cliente:", project.client >>,
       << "div", "info-item", "Duración:", project.duration >>,
       << "div", "info-item", "Rol:", project.role >>,
       << "div", "case-study-body" >>,
       << "h2", "Objetivo" >>,
       << "p", project.objective >>,
       << "h2", "El Problema" >>,
       << "p", project.problem >>,
       << "h2", "Proceso" >>,
       << "ul", "process-list" >> >>
    \o [ i \in 1..Len(project.process) |-> << "li", project.process[i] >> ]
    \o << << "h2", "La Solución" >>,
          << "p", project.solution >>,
          << "h2", "Resultados" >>,
          << "div", "results-grid" >> >>
    \o [ i \in 1..Len(project.results) |->
            << "div", "result-item", project.results[i] >> ]

EmptyHTML == << >>

(***************************************************************************)
(* The UI: state, DOM and body as one value the handlers transform         *)
(***************************************************************************)
World == [ state |-> state, DOM |-> DOM, bodyOverflow |-> bodyOverflow ]

InitialState ==
    [ isMenuOpen |-> FALSE, isModalOpen |-> FALSE,
      currentProject |-> "null", scrollPosition |-> 0 ]

\* The elements as the page delivers them: no 'active' class, no inline
\* style on the bars, an empty #case-study-content.
InitialDOM ==
    [ navMenu      |-> {},
      hamburger    |-> {},
      bars         |-> "unset",
      modal        |-> {},
      modalContent |-> EmptyHTML ]

InitialWorld ==
    [ state |-> InitialState, DOM |-> InitialDOM, bodyOverflow |-> "" ]

classListToggle(classes, c) ==
    IF c \in classes THEN classes \ { c } ELSE classes \cup { c }

toggleMobileMenu_addOnly(w) ==
    LET open == ~ w.state.isMenuOpen IN
    [ w EXCEPT
        !.state.isMenuOpen = open,
        !.DOM.navMenu      = classListToggle(@, "active"),
        !.DOM.hamburger    = @ \cup { "active" },
        !.DOM.bars         = IF open THEN "cross" ELSE "bars",
        !.bodyOverflow     = IF open THEN "hidden" ELSE "" ]

toggleMobileMenu(w) ==
    LET open == ~ w.state.isMenuOpen IN
    [ w EXCEPT
        !.state.isMenuOpen = open,
        !.DOM.navMenu      = classListToggle(@, "active"),
        !.DOM.hamburger    = classListToggle(@, "active"),
        !.DOM.bars         = IF open THEN "cross" ELSE "bars",
        !.bodyOverflow     = IF open THEN "hidden" ELSE "" ]

\* A missing or inherited entry leaves #case-study-content as it is: the first
\* returns at `if (!project) return`, the second throws at project.process.map
\* before the assignment to innerHTML.
loadCaseStudyContent_blank(w, projectId) ==
    w

loadCaseStudyContent(w, projectId) ==
    LET project == lookupCaseStudy(projectId) IN
    IF project.kind = "record"
    THEN [ w EXCEPT !.DOM.modalContent = caseStudyHTML(caseStudies[project.id]) ]
    ELSE w

openCaseStudy_closesMenu(w, projectId) ==
    loadCaseStudyContent(
        [ w EXCEPT
            !.state.isMenuOpen     = FALSE,
            !.DOM.navMenu          = @ \ { "active" },
            !.DOM.hamburger        = @ \ { "active" },
            !.state.isModalOpen    = TRUE,
            !.state.currentProject = projectId,
            !.DOM.modal            = @ \cup { "active" },
            !.bodyOverflow         = "hidden" ],
        projectId)

\* modalClose.focus() moves the document's focus only, which no handler reads.
openCaseStudy(w, projectId) ==
    loadCaseStudyContent(
        [ w EXCEPT
            !.state.isModalOpen    = TRUE,
            !.state.currentProject = projectId,
            !.DOM.modal            = @ \cup { "active" },
            !.bodyOverflow         = "hidden" ],
        projectId)

closeModal_keepContent(w) ==
    [ w EXCEPT
        !.state.isModalOpen    = FALSE,
        !.state.currentProject = "null",
        !.DOM.modal            = @ \ { "active" },
        !.bodyOverflow         = "" ]

closeModal_toggle(w) ==
    [ w EXCEPT
        !.state.isModalOpen    = ~ @,
        !.state.currentProject = "null",
        !.DOM.modal            = classListToggle(@, "active"),
        !.bodyOverflow         = "",
        !.DOM.modalContent     = EmptyHTML ]

closeModal(w) ==
    [ w EXCEPT
        !.state.isModalOpen    = FALSE,
        !.state.currentProject = "null",
        !.DOM.modal            = @ \ { "active" },
        !.bodyOverflow         = "",
        !.DOM.modalContent     = EmptyHTML ]

(***************************************************************************)
(* Event listeners                                                         *)
(***************************************************************************)
\* What a click can land on.  `project` is the card's data-project.
Target(el, project) == [ el |-> el, project |-> project ]

ClickTargets ==
    { Target(el, "null") :
        el \in { "hamburger", "navLink", "navMenu", "modalClose",
                 "modalOverlay", "page" } }
    \cup { Target("projectCard", p) : p \in ProjectIds }

hamburgerContains(target) == target.el = "hamburger"

\* The links live in the menu panel.
navMenuContains(target) == target.el \in { "navMenu", "navLink" }

\* link.addEventListener('click', ...) of initializeNavigation
navLinkListener(w) ==
    IF w.state.isMenuOpen THEN toggleMobileMenu(w) ELSE w

documentClickListener_noHamburgerGuard(w, target) ==
    IF w.state.isMenuOpen /\ ~ navMenuContains(target)
    THEN toggleMobileMenu(w)
    ELSE w

\* document.addEventListener('click', ...) of initializeNavigation
documentClickListener(w, target) ==
    IF /\ w.state.isMenuOpen
       /\ ~ hamburgerContains(target)
       /\ ~ navMenuContains(target)
    THEN toggleMobileMenu(w)
    ELSE w

\* The listener registered on the element the click landed on.
targetListener(w, target) ==
    CASE target.el = "hamburger"    -> toggleMobileMenu(w)
      [] target.el = "navLink"      -> navLinkListener(w)
      [] target.el = "projectCard"  -> openCaseStudy(w, target.project)
      [] target.el = "modalClose"   -> closeModal(w)
      [] target.el = "modalOverlay" -> closeModal(w)
      [] OTHER                      -> w

\* A click reaches the listener of its target and then, bubbling, the one
\* on document.
dispatchClick(w, target) ==
    documentClickListener(targetListener(w, target), target)

Keys == { "Escape", "Enter", "Tab" }

keydownListener_noGuard(w, key) ==
    IF key = "Escape" THEN closeModal(w) ELSE w

\* document.addEventListener('keydown', ...) of initializeModals
keydownListener(w, key) ==
    IF key = "Escape" /\ w.state.isModalOpen THEN closeModal(w) ELSE w

MobileBreakpoint == 768

InnerWidths == { 375, MobileBreakpoint, MobileBreakpoint + 1, 1280 }

\* updateScrollPositions() has an empty body.
handleResize(w, innerWidth) ==
    IF innerWidth > MobileBreakpoint /\ w.state.isMenuOpen
    THEN toggleMobileMenu(w)
    ELSE w

Event(type, target, key, innerWidth) ==
    [ type |-> type, target |-> target, key |-> key, innerWidth |-> innerWidth ]

NoTarget == Target("none", "null")

\* The event has run: the UI is w, and what it was is remembered.
Dispatched(w, event) ==
    /\ prev' = World
    /\ lastEvent' = event
    /\ state' = w.state
    /\ DOM' = w.DOM
    /\ bodyOverflow' = w.bodyOverflow
    /\ UNCHANGED << timerVars, formVars, otherVars >>

Click ==
    \E target \in ClickTargets :
        Dispatched(dispatchClick(World, target), Event("click", target, "none", 0))

KeyDown ==
    \E key \in Keys :
        Dispatched(keydownListener(World, key), Event("keydown", NoTarget, key, 0))

\* The debounced resize listener has fired.
Resize ==
    \E innerWidth \in InnerWidths :
        Dispatched(handleResize(World, innerWidth),
                   Event("resize", NoTarget, "none", innerWidth))

TimersIdle ==
    /\ now = 0
    /\ inThrottle = FALSE
    /\ timers = {}
    /\ timeoutId = 0
    /\ nextTimerId = 1
    /\ calls = << >>
    /\ fnLog = << >>

FormIdle ==
    /\ data = [ nombre |-> << >>, email |-> << >>, mensaje |-> << >> ]
    /\ errors = << >>
    /\ vpc = "idle"

\* A page whose nav links and sections no specification of this part scrolls.
NavIdle ==
    /\ page = [ sections |-> << >>, links |-> << >> ]
    /\ scrollY = 0
    /\ activeLinks = {}

\* A form nobody touches.
ContactIdle ==
    /\ form = << >>
    /\ submissions = << >>
    /\ completions = << >>
    /\ banners = << >>

\* The optional elements initializeDOM looks up and simulateFormSubmission
\* queries: #nav-menu, #hamburger, #contactForm, its submit button,
\* #case-study-modal, #modal-overlay, #modal-close, #case-study-content.
HostElements ==
    { "navMenu", "hamburger", "contactForm", "submitButton",
      "modal", "modalOverlay", "modalClose", "modalContent" }

NoError == "none"

\* What a listener has done when it returns or throws: what it leaves of
\* the object it works on, and the reference it threw on, if any.
Outcome(w, error) == [ world |-> w, error |-> error ]

Returned(w) == Outcome(w, NoError)

\* The full document, where no listener meets a missing element.
HostIdle ==
    /\ present = HostElements
    /\ threw = NoError

\* No smooth scroll is under way.
AnimIdle == anim = << >>

OthersIdle == NavIdle /\ ContactIdle /\ HostIdle /\ AnimIdle

UIInit ==
    /\ state = InitialState
    /\ DOM = InitialDOM
    /\ bodyOverflow = ""
    /\ lastEvent = Event("DOMContentLoaded", NoTarget, "none", 0)
    /\ prev = InitialWorld

Init == UIInit /\ TimersIdle /\ FormIdle /\ OthersIdle

Next == Click \/ KeyDown \/ Resize

Spec == Init /\ [][Next]_vars

(***************************************************************************)
(* throttle and debounce, on the timers of the event loop                  *)
(***************************************************************************)
scrollThrottle == 100
debounceDelay == 250

\* Bounds of the timer specifications.
ThrottleTickMs == 25
ThrottleMaxTime == 200
MaxThrottleCalls == 6
DebounceTickMs == 50
DebounceMaxTime == 600
MaxDebounceCalls == 4

Min(a, b) == IF a < b THEN a ELSE b

\* setTimeout(callback, delay): a pending callback, due `delay` from now.
Timer(id, kind, delay, args) ==
    [ id |-> id, kind |-> kind, due |-> now + delay, args |-> args ]

DueTimers == { t \in timers : t.due <= now }

\* The event loop runs a callback when its delay has elapsed, before it
\* takes up an event that arrives at that instant or later.
NoTimerDue == DueTimers = {}

\* Time passes, up to the instant the next callback is due.
Tick(step, maxTime) ==
    /\ NoTimerDue
    /\ now + step <= maxTime
    /\ now' = IF timers = {} THEN now + step
              ELSE Min(now + step, (CHOOSE t \in timers :
                                      \A u \in timers : t.due <= u.due).due)
    /\ UNCHANGED << inThrottle, timers, timeoutId, nextTimerId, calls, fnLog >>
    /\ UNCHANGED << uiVars, formVars, otherVars >>

\* func.apply(context, args)
Applied(args) == Append(fnLog, [ t |-> now, args |-> args ])

\* The call itself, whatever the wrapper does with it.
Called(args) == Append(calls, [ t |-> now, args |-> args ])

ThrottledCall_noWindow(args) ==
    /\ NoTimerDue
    /\ Len(calls) < MaxThrottleCalls
    /\ calls' = Called(args)
    /\ IF ~ inThrottle
       THEN /\ fnLog' = Applied(args)
            /\ inThrottle' = inThrottle
            /\ timers' = timers \cup
                         { Timer(nextTimerId, "throttle", scrollThrottle, args) }
            /\ nextTimerId' = nextTimerId + 1
       ELSE UNCHANGED << fnLog, inThrottle, timers, nextTimerId >>
    /\ UNCHANGED << now, timeoutId, uiVars, formVars, otherVars >>

\* The function throttle(func, limit) returns, called with args.
ThrottledCall(args) ==
    /\ NoTimerDue
    /\ Len(calls) < MaxThrottleCalls
    /\ calls' = Called(args)
    /\ IF ~ inThrottle
       THEN /\ fnLog' = Applied(args)
            /\ inThrottle' = TRUE
            /\ timers' = timers \cup
                         { Timer(nextTimerId, "throttle", scrollThrottle, args) }
            /\ nextTimerId' = nextTimerId + 1
       ELSE UNCHANGED << fnLog, inThrottle, timers, nextTimerId >>
    /\ UNCHANGED << now, timeoutId, uiVars, formVars, otherVars >>

\* () => inThrottle = false
ThrottleTimeout ==
    \E t \in DueTimers :
        /\ t.kind = "throttle"
        /\ inThrottle' = FALSE
        /\ timers' = timers \ { t }
        /\ UNCHANGED << now, timeoutId, nextTimerId, calls, fnLog >>
        /\ UNCHANGED << uiVars, formVars, otherVars >>

ThrottleCall == ThrottledCall(Len(calls) + 1)

ThrottleTick == Tick(ThrottleTickMs, ThrottleMaxTime)

ThrottleInit == UIInit /\ TimersIdle /\ FormIdle /\ OthersIdle

ThrottleNext == ThrottleCall \/ ThrottleTimeout \/ ThrottleTick

ThrottleSpec == ThrottleInit /\ [][ThrottleNext]_vars

\* clearTimeout(id): no effect when no pending timer has that id.
clearTimeout(pending, id) == { t \in pending : t.id # id }

DebouncedCall_noClear(args) ==
    /\ NoTimerDue
    /\ Len(calls) < MaxDebounceCalls
    /\ calls' = Called(args)
    /\ timers' = timers \cup
                 { Timer(nextTimerId, "debounce", debounceDelay, args) }
    /\ timeoutId' = nextTimerId
    /\ nextTimerId' = nextTimerId + 1
    /\ UNCHANGED << now, inThrottle, fnLog, uiVars, formVars, otherVars >>

\* The function debounce(func, delay) returns, called with args.
DebouncedCall(args) ==
    /\ NoTimerDue
    /\ Len(calls) < MaxDebounceCalls
    /\ calls' = Called(args)
    /\ timers' = clearTimeout(timers, timeoutId) \cup
                 { Timer(nextTimerId, "debounce", debounceDelay, args) }
    /\ timeoutId' = nextTimerId
    /\ nextTimerId' = nextTimerId + 1
    /\ UNCHANGED << now, inThrottle, fnLog, uiVars, formVars, otherVars >>

\* () => func.apply(context, args)
DebounceTimeout ==
    \E t \in DueTimers :
        /\ t.kind = "debounce"
        /\ fnLog' = Applied(t.args)
        /\ timers' = timers \ { t }
        /\ UNCHANGED << now, inThrottle, timeoutId, nextTimerId, calls >>
        /\ UNCHANGED << uiVars, formVars, otherVars >>

DebounceCall == DebouncedCall(Len(calls) + 1)

DebounceTick == Tick(DebounceTickMs, DebounceMaxTime)

DebounceInit == UIInit /\ TimersIdle /\ FormIdle /\ OthersIdle

DebounceNext == DebounceCall \/ DebounceTimeout \/ DebounceTick

DebounceSpec == DebounceInit /\ [][DebounceNext]_vars

(***************************************************************************)
(* validateForm                                                            *)
(***************************************************************************)
LowerCase ==
    { "a", "b", "c", "d", "e", "f", "g", "h", "i", "j", "k", "l", "m",
      "n", "o", "p", "q", "r", "s", "t", "u", "v", "w", "x", "y", "z" }

UpperCase ==
    { "A", "B", "C", "D", "E", "F", "G", "H", "I", "J", "K", "L", "M",
      "N", "O", "P", "Q", "R", "S", "T", "U", "V", "W", "X", "Y", "Z" }

\* The characters \s matches that the inputs below draw from.
WhiteSpace == { " ", "\t" }

\* [a-zA-ZáéíóúÁÉÍÓÚñÑ\s]
NameCharClass ==
    LowerCase \cup UpperCase
    \cup { "á", "é", "í", "ó", "ú", "Á", "É", "Í", "Ó", "Ú", "ñ", "Ñ" }
    \cup WhiteSpace

\* /^[a-zA-ZáéíóúÁÉÍÓÚñÑ\s]+$/.test(value)
nameRegexTest(value) ==
    /\ Len(value) >= 1
    /\ \A i \in 1..Len(value) : value[i] \in NameCharClass

\* [^\s@]
notSpaceNorAt(c) == c \notin WhiteSpace /\ c # "@"

\* The regular expression ^[^\s@]+@[^\s@]+\.[^\s@]+$ as an automaton:
\*   1 -[^\s@]-> 2 (local)   2 -[^\s@]-> 2   2 -@-> 3
\*   3 -[^\s@]-> 4 (domain)  4 -[^\s@]-> 4   4 -.-> 5
\*   5 -[^\s@]-> 6 (tld)     6 -[^\s@]-> 6   6 accepts
emailStep_atInDomain(q, c) ==
    CASE q = 1 -> IF notSpaceNorAt(c) THEN { 2 } ELSE {}
      [] q = 2 -> IF c = "@" THEN { 3 } ELSE IF notSpaceNorAt(c) THEN { 2 } ELSE {}
      [] q = 3 -> IF c \notin WhiteSpace THEN { 4 } ELSE {}
      [] q = 4 -> IF c = "." THEN { 4, 5 } ELSE IF c \notin WhiteSpace THEN { 4 } ELSE {}
      [] q = 5 -> IF notSpaceNorAt(c) THEN { 6 } ELSE {}
      [] q = 6 -> IF notSpaceNorAt(c) THEN { 6 } ELSE {}

emailStep(q, c) ==
    CASE q = 1 -> IF notSpaceNorAt(c) THEN { 2 } ELSE {}
      [] q = 2 -> IF c = "@" THEN { 3 } ELSE IF notSpaceNorAt(c) THEN { 2 } ELSE {}
      [] q = 3 -> IF notSpaceNorAt(c) THEN { 4 } ELSE {}
      [] q = 4 -> IF c = "." THEN { 4, 5 } ELSE IF notSpaceNorAt(c) THEN { 4 } ELSE {}
      [] q = 5 -> IF notSpaceNorAt(c) THEN { 6 } ELSE {}
      [] q = 6 -> IF notSpaceNorAt(c) THEN { 6 } ELSE {}

RECURSIVE emailRun(_, _, _)
emailRun(qs, value, i) ==
    IF i > Len(value) THEN qs
    ELSE emailRun(UNION { emailStep(q, value[i]) : q \in qs }, value, i + 1)

\* emailRegex.test(value)
emailRegexTest(value) == 6 \in emailRun({ 1 }, value, 1)

MinNombreLength == 2
MinMensajeLength == 10

nombreTooShort(nombre) == nombre = << >> \/ Len(nombre) < MinNombreLength

mensajeTooShort_offByOne(mensaje) ==
    mensaje = << >> \/ Len(mensaje) <= MinMensajeLength

\* !data.mensaje || data.mensaje.length < 10
mensajeTooShort(mensaje) ==
    mensaje = << >> \/ Len(mensaje) < MinMensajeLength

NombreLengthMessage == "El nombre debe tener al menos 2 caracteres"
NombreLettersMessage == "El nombre solo puede contener letras y espacios"
EmailMessage == "Por favor ingresa un email válido"
MensajeMessage == "El mensaje debe tener al menos 10 caracteres"

validateForm(d) ==
    ( IF nombreTooShort(d.nombre) THEN << NombreLengthMessage >>
      ELSE IF ~ nameRegexTest(d.nombre) THEN << NombreLettersMessage >>
      ELSE << >> )
    \o ( IF d.email = << >> \/ ~ emailRegexTest(d.email)
         THEN << EmailMessage >> ELSE << >> )
    \o ( IF mensajeTooShort(d.mensaje) THEN << MensajeMessage >> ELSE << >> )

\* Bounds of the validation inputs.
MaxNombreLen == 3
MaxEmailLen == 6
MaxMensajeLen == 11

SeqsUpTo(S, n) == UNION { [ 1..k -> S ] : k \in 0..n }

\* Letters of each kind the name rule knows, a blank, a tab, and characters
\* outside the class: a digit, a hyphen, a vowel with a grave accent.
NombreChars == { "a", "Z", "é", "ñ", " ", "\t", "1", "-", "à" }
EmailChars == { "a", "b", "@", ".", " " }
MensajeChars == { "x", " " }

ValidNombre == << "A", "n", "a", " ", "P", "é", "r", "e", "z" >>
ValidEmail == << "a", "@", "b", ".", "c", "o" >>
ValidMensaje == << "H", "o", "l", "a", ",", " ", "q", "u", "i", "e", "r", "o" >>

FormData(nombre, email, mensaje) ==
    [ nombre |-> nombre, email |-> email, mensaje |-> mensaje ]

\* One field varies over every string of its alphabet, the others pass.
NombreInputs ==
    { FormData(n, ValidEmail, ValidMensaje) : n \in SeqsUpTo(NombreChars, MaxNombreLen) }

EmailInputs ==
    { FormData(ValidNombre, e, ValidMensaje) : e \in SeqsUpTo(EmailChars, MaxEmailLen) }

MensajeInputs ==
    { FormData(ValidNombre, ValidEmail, m) : m \in SeqsUpTo(MensajeChars, MaxMensajeLen) }

\* The data that breaks every rule.
EveryRuleBroken ==
    FormData(<< "A", "1" >>, << "b", "a", "d" >>, << "s", "h", "o", "r", "t" >>)

\* Several fields fail at once.
MixedInputs ==
    { FormData(n, e, m) :
         n \in { << "A" >>, << "A", "1" >>, ValidNombre },
         e \in { << "b", "a", "d" >>, << "a", "@", "b" >>, << "a" >>, ValidEmail },
         m \in { << "s", "h", "o", "r", "t" >>, ValidMensaje } }

IsFormInput(d) ==
    \/ d \in NombreInputs
    \/ d \in EmailInputs
    \/ d \in MensajeInputs
    \/ d \in MixedInputs

\* const errors = validateForm(data)
Validate ==
    /\ vpc = "start"
    /\ errors' = validateForm(data)
    /\ vpc' = "done"
    /\ UNCHANGED << data, uiVars, timerVars, otherVars >>

ValidateInit ==
    /\ UIInit
    /\ TimersIdle
    /\ IsFormInput(data)
    /\ errors = << >>
    /\ vpc = "start"
    /\ OthersIdle

ValidateNext == Validate

ValidateSpec == ValidateInit /\ [][ValidateNext]_vars

(***************************************************************************)
(* Active-section highlighting                                             *)
(***************************************************************************)
NavOffset == 100

\* Bounds of the pages scrolled.
MaxSections == 2

SectionIds == << "inicio", "experiencia", "proyectos", "contacto" >>
OffsetTops == { 0, 100, 150, 400 }
ClientHeights == { 0, 100, 300 }
ScrollOffsets == { 0, 49, 50, 99, 100, 250, 349, 350, 600, 700 }

Section(id, offsetTop, clientHeight) ==
    [ id |-> id, offsetTop |-> offsetTop, clientHeight |-> clientHeight ]

\* document.querySelectorAll('section[id]'), in document order.
SectionLists ==
    UNION { { [ i \in 1..n |-> Section(SectionIds[i], geo[i][1], geo[i][2]) ] :
                geo \in [ 1..n -> OffsetTops \X ClientHeights ] } :
            n \in 0..MaxSections }

\* The data-section of each nav link: one per section the page may hold, one
\* that names no section, and a link without the attribute.
NavLinks ==
    << "inicio", "experiencia", "proyectos", "contacto", "blog", "null" >>

sectionMatches(section, y) ==
    LET sectionTop == section.offsetTop - NavOffset IN
    y >= sectionTop /\ y < sectionTop + section.clientHeight

visitSection_keepFirst(current, section, y) ==
    IF sectionMatches(section, y) /\ current = "" THEN section.id ELSE current

\* The body of sections.forEach: `current` after one more section.
visitSection(current, section, y) ==
    IF sectionMatches(section, y) THEN section.id ELSE current

RECURSIVE currentSection(_, _, _, _)
currentSection(sections, y, i, current) ==
    IF i > Len(sections) THEN current
    ELSE currentSection(sections, y, i + 1, visitSection(current, sections[i], y))

\* The links that carry 'active' when updateActiveNavigation returns.
updateActiveNavigation(pg, y) ==
    LET current == currentSection(pg.sections, y, 1, "") IN
    { i \in 1..Len(pg.links) : pg.links[i] = current }

\* The page scrolls and both throttled scroll listeners run: handleScroll
\* stores the offset, each updates the links.
ScrollHandled ==
    \E y \in ScrollOffsets :
        /\ scrollY' = y
        /\ state' = [ state EXCEPT !.scrollPosition = y ]
        /\ activeLinks' = updateActiveNavigation(page, y)
        /\ lastEvent' = Event("scroll", NoTarget, "handled", 0)
        /\ UNCHANGED << page, DOM, bodyOverflow, prev, timerVars, formVars,
                        contactVars, hostVars, anim >>

\* The page scrolls inside the throttle window: no listener body runs.
ScrollSuppressed ==
    \E y \in ScrollOffsets :
        /\ scrollY' = y
        /\ lastEvent' = Event("scroll", NoTarget, "suppressed", 0)
        /\ UNCHANGED << page, activeLinks, state, DOM, bodyOverflow, prev,
                        timerVars, formVars, contactVars, hostVars, anim >>

NavInit ==
    /\ UIInit
    /\ TimersIdle
    /\ FormIdle
    /\ ContactIdle
    /\ AnimIdle
    /\ HostIdle
    /\ page \in { [ sections |-> ss, links |-> NavLinks ] : ss \in SectionLists }
    /\ scrollY = 0
    /\ activeLinks = {}

NavNext == ScrollHandled \/ ScrollSuppressed

NavSpec == NavInit /\ [][NavNext]_vars

(***************************************************************************)
(* The contact form                                                        *)
(***************************************************************************)
FieldNames == { "nombre", "email", "mensaje" }

\* The label the page gives the submit button.
OriginalLabel == "Enviar Mensaje"
SendingLabel == "Enviando..."
ErrorColor == "#ff6b6b"

SubmitDelay == 1500
BannerDelay == 5000

\* Bounds of the form specifications.
MaxSubmits == 2
ContactTickMs == 500
ContactMaxTime == 1000

RECURSIVE trimStart(_)
trimStart(s) ==
    IF s # << >> /\ Head(s) \in WhiteSpace THEN trimStart(Tail(s)) ELSE s

RECURSIVE trimEnd(_)
trimEnd(s) ==
    IF s # << >> /\ s[Len(s)] \in WhiteSpace
    THEN trimEnd(SubSeq(s, 1, Len(s) - 1))
    ELSE s

\* String.prototype.trim
trim(s) == trimEnd(trimStart(s))

EmptyValues == [ f \in FieldNames |-> << >> ]

\* The form as the page delivers it: empty fields, no message nodes, the
\* button enabled.  `layout` says where a field's parentNode is: a group of
\* its own, or the form itself, shared by all fields.
InitialForm(layout) ==
    [ layout      |-> layout,
      values      |-> EmptyValues,
      children    |-> << >>,
      fieldErrors |-> << >>,
      borders     |-> [ f \in FieldNames |-> "" ],
      button      |-> [ textContent |-> OriginalLabel, disabled |-> FALSE ],
      console     |-> << >> ]

\* The form together with the timers its handlers set.
ContactWorld == [ form |-> form, timers |-> timers, nextTimerId |-> nextTimerId ]

FormNode(class, id, items) == [ class |-> class, id |-> id, items |-> items ]

IsFormError(node) == node.class = "form-error"

\* .field-error nodes, in document order, each with the field it was shown for.
FieldErrorNode(field, message) == [ owner |-> field, text |-> message ]

RECURSIVE removeFirst(_, _)
removeFirst(nodes, field) ==
    IF nodes = << >> THEN << >>
    ELSE IF Head(nodes).owner = field THEN Tail(nodes)
    ELSE << Head(nodes) >> \o removeFirst(Tail(nodes), field)

\* field.parentNode.querySelector('.field-error'), removed if there is one.
clearFieldError(f, field) ==
    [ f EXCEPT
        !.fieldErrors = IF f.layout = "groups" THEN removeFirst(@, field)
                        ELSE IF @ = << >> THEN @ ELSE Tail(@),
        !.borders[field] = "" ]

showFieldError(f, field, message) ==
    LET cleared == clearFieldError(f, field) IN
    [ cleared EXCEPT
        !.fieldErrors = Append(@, FieldErrorNode(field, message)),
        !.borders[field] = ErrorColor ]

\* The switch of validateField: the message of the rule the value breaks,
\* or '' when it breaks none.
fieldErrorMessage(name, value) ==
    CASE name = "nombre" ->
           IF value = << >> \/ Len(value) < MinNombreLength
           THEN "El nombre debe tener al menos 2 caracteres"
           ELSE IF ~ nameRegexTest(value) THEN "Solo letras y espacios permitidos"
           ELSE ""
      [] name = "email" ->
           IF value = << >> \/ ~ emailRegexTest(value)
           THEN "Formato de email inválido" ELSE ""
      [] name = "mensaje" ->
           IF value = << >> \/ Len(value) < MinMensajeLength
           THEN "El mensaje debe tener al menos 10 caracteres" ELSE ""
      [] OTHER -> ""

validateField_noTrim(f, field) ==
    LET errorMessage == fieldErrorMessage(field, f.values[field])
    IN  IF errorMessage # ""
        THEN showFieldError(f, field, errorMessage)
        ELSE clearFieldError(f, field)

validateField(f, field) ==
    LET value == trim(f.values[field])
        errorMessage == fieldErrorMessage(field, value)
    IN  IF errorMessage # ""
        THEN showFieldError(f, field, errorMessage)
        ELSE clearFieldError(f, field)

\* The data object of handleFormSubmit.
formDataOf(f) ==
    FormData(trim(f.values["nombre"]), trim(f.values["email"]),
             trim(f.values["mensaje"]))

showFormErrors_keepOld(f, errs) ==
    [ f EXCEPT !.children = << FormNode("form-error", 0, errs) >> \o @ ]

showFormErrors(f, errs) ==
    [ f EXCEPT
        !.children = << FormNode("form-error", 0, errs) >>
                     \o SelectSeq(@, LAMBDA node : ~ IsFormError(node)) ]

\* What the callbacks of the form's timers carry in their closures.
TimerArgs(sub, d, originalText, banner) ==
    [ sub |-> sub, data |-> d, originalText |-> originalText, banner |-> banner ]

NoData == FormData(<< >>, << >>, << >>)

\* `sub` numbers the submission.
simulateFormSubmission(cw, d, sub) ==
    [ cw EXCEPT
        !.form.button = [ textContent |-> SendingLabel, disabled |-> TRUE ],
        !.timers = @ \cup
            { Timer(cw.nextTimerId, "completion", SubmitDelay,
                    TimerArgs(sub, d, cw.form.button.textContent, 0)) },
        !.nextTimerId = @ + 1 ]

handleFormSubmit_guarded(cw, sub) ==
    LET d == formDataOf(cw.form)
        errs == validateForm(d)
    IN  IF errs # << >>
        THEN [ cw EXCEPT !.form = showFormErrors(cw.form, errs) ]
        ELSE IF \E t \in cw.timers : t.kind = "completion" THEN cw
        ELSE simulateFormSubmission(cw, d, sub)

handleFormSubmit(cw, sub) ==
    LET d == formDataOf(cw.form)
        errs == validateForm(d)
    IN  IF errs # << >>
        THEN [ cw EXCEPT !.form = showFormErrors(cw.form, errs) ]
        ELSE simulateFormSubmission(cw, d, sub)

\* The banner carries the id of the timer that removes it.
showSuccessMessage(cw) ==
    [ cw EXCEPT
        !.form.children = << FormNode("form-success", cw.nextTimerId, << >>) >> \o @,
        !.timers = @ \cup
            { Timer(cw.nextTimerId, "banner", BannerDelay,
                    TimerArgs(0, NoData, "", cw.nextTimerId)) },
        !.nextTimerId = @ + 1 ]

submissionDone_clearsBanners(cw, t) ==
    LET shown == showSuccessMessage(
                    [ cw EXCEPT !.form.console =
                        Append(@, << t.args.data.nombre, t.args.data.email >>) ])
    IN  [ shown EXCEPT
            !.form.values = EmptyValues,
            !.form.button = [ textContent |-> t.args.originalText,
                              disabled |-> FALSE ],
            !.form.children = << >>,
            !.form.fieldErrors = << >> ]

\* The callback simulateFormSubmission hands to setTimeout.
submissionDone(cw, t) ==
    LET shown == showSuccessMessage(
                    [ cw EXCEPT !.form.console =
                        Append(@, << t.args.data.nombre, t.args.data.email >>) ])
    IN  [ shown EXCEPT
            !.form.values = EmptyValues,
            !.form.button = [ textContent |-> t.args.originalText,
                              disabled |-> FALSE ],
            !.form.children = SelectSeq(@, LAMBDA node : ~ IsFormError(node)),
            !.form.fieldErrors = << >> ]

\* () => successDiv.remove()
bannerExpired(cw, t) ==
    [ cw EXCEPT
        !.form.children =
            SelectSeq(@, LAMBDA node :
                ~ (node.class = "form-success" /\ node.id = t.args.banner)) ]

\* What the user may have typed: the form that passes (the name padded with
\* blanks), the form that breaks every rule, and a form with a bad email only.
FilledForms ==
    { [ nombre |-> << " ", "A", "n", "a", " " >>, email |-> ValidEmail,
        mensaje |-> ValidMensaje ],
      [ nombre |-> << "A", "1" >>, email |-> << "b", "a", "d" >>,
        mensaje |-> << "s", "h", "o", "r", "t" >> ],
      [ nombre |-> ValidNombre, email |-> << "a", "@", "b" >>,
        mensaje |-> ValidMensaje ] }

\* The field whose blur the submission specification follows.
ContactBlurFields == { "email" }

ContactInstalled(cw) ==
    /\ form' = cw.form
    /\ timers' = cw.timers
    /\ nextTimerId' = cw.nextTimerId

UntouchedByForm ==
    UNCHANGED << state, DOM, bodyOverflow, prev, inThrottle, timeoutId, calls,
                 fnLog, formVars, navVars, present, anim >>

\* The 'input' listener is clearFieldError itself, so the browser calls it
\* with the event where the other callers pass the field.  An event has no
\* parentNode: `field.parentNode.querySelector` throws on undefined before
\* anything is removed or restyled.
inputListener(f, field) ==
    Outcome(f, "field.parentNode.querySelector")

\* The user edits the fields: a run of input events, each of which leaves
\* the value typed and throws in the listener.
FormInput ==
    \E typed \in FilledForms :
        /\ NoTimerDue
        /\ typed # form.values
        /\ LET field == CHOOSE name \in FieldNames : typed[name] # form.values[name]
               outcome == inputListener([ form EXCEPT !.values = typed ], field)
           IN  /\ form' = outcome.world
               /\ threw' = outcome.error
        /\ lastEvent' = Event("input", NoTarget, "none", 0)
        /\ UNCHANGED << now, timers, nextTimerId, submissions, completions, banners >>
        /\ UntouchedByForm

\* The 'blur' listener: validateField.
FormBlur(fields) ==
    \E field \in fields :
        /\ NoTimerDue
        /\ form' = validateField(form, field)
        /\ threw' = NoError
        /\ lastEvent' = Event("blur", Target(field, "null"), "none", 0)
        /\ UNCHANGED << now, timers, nextTimerId, submissions, completions, banners >>
        /\ UntouchedByForm

ContactBlur == FormBlur(ContactBlurFields)

\* The 'submit' listener: handleFormSubmit.
FormSubmit ==
    /\ NoTimerDue
    /\ Len(submissions) < MaxSubmits
    /\ ContactInstalled(handleFormSubmit(ContactWorld, Len(submissions) + 1))
    /\ submissions' = Append(submissions,
          [ t |-> now,
            valid |-> validateForm(formDataOf(form)) = << >>,
            label |-> form.button.textContent ])
    /\ threw' = NoError
    /\ lastEvent' = Event("submit", NoTarget, "none", 0)
    /\ UNCHANGED << now, completions, banners >>
    /\ UntouchedByForm

WithoutTimer(cw, t) == [ cw EXCEPT !.timers = @ \ { t } ]

\* Callbacks that are due run in the order of their due times, and callbacks
\* due at the same instant in the order in which they were scheduled.
FirstDue(t) ==
    /\ t \in DueTimers
    /\ \A u \in DueTimers : t.due < u.due \/ ( t.due = u.due /\ t.id <= u.id )

SubmissionTimeout ==
    \E t \in DueTimers :
        /\ FirstDue(t)
        /\ t.kind = "completion"
        /\ LET cw == submissionDone(WithoutTimer(ContactWorld, t), t) IN
             /\ ContactInstalled(cw)
             /\ completions' = Append(completions,
                   [ sub |-> t.args.sub,
                     t |-> now,
                     button |-> cw.form.button,
                     reset |-> cw.form.values = EmptyValues,
                     banner |-> /\ cw.form.children # << >>
                                /\ cw.form.children[1] =
                                      FormNode("form-success", nextTimerId, << >>),
                     errorNodes |->
                        Len(SelectSeq(cw.form.children, IsFormError))
                        + Len(cw.form.fieldErrors),
                     logged |-> Len(cw.form.console) ])
             /\ banners' = Append(banners,
                   [ id |-> nextTimerId, shownAt |-> now, removedAt |-> -1 ])
        /\ threw' = NoError
        /\ lastEvent' = Event("timeout", NoTarget, "completion", 0)
        /\ UNCHANGED << now, submissions >>
        /\ UntouchedByForm

BannerTimeout ==
    \E t \in DueTimers :
        /\ FirstDue(t)
        /\ t.kind = "banner"
        /\ ContactInstalled(bannerExpired(WithoutTimer(ContactWorld, t), t))
        /\ banners' = [ i \in 1..Len(banners) |->
                          IF banners[i].id = t.args.banner
                          THEN [ banners[i] EXCEPT !.removedAt = now ]
                          ELSE banners[i] ]
        /\ threw' = NoError
        /\ lastEvent' = Event("timeout", NoTarget, "banner", 0)
        /\ UNCHANGED << now, submissions, completions >>
        /\ UntouchedByForm

\* Time passes, up to the instant the next callback is due; it goes on
\* passing while a callback is pending.
ContactTick ==
    /\ NoTimerDue
    /\ now + ContactTickMs <= ContactMaxTime \/ timers # {}
    /\ LET nextDue == (CHOOSE t \in timers : \A u \in timers : t.due <= u.due).due IN
         now' = IF timers = {} THEN now + ContactTickMs
                ELSE IF now + ContactTickMs <= ContactMaxTime
                THEN Min(now + ContactTickMs, nextDue)
                ELSE nextDue
    /\ UNCHANGED << form, timers, nextTimerId, submissions, completions, banners,
                    lastEvent, threw >>
    /\ UntouchedByForm

ContactInit ==
    /\ UIInit
    /\ TimersIdle
    /\ FormIdle
    /\ NavIdle
    /\ AnimIdle
    /\ HostIdle
    /\ form = InitialForm("groups")
    /\ submissions = << >>
    /\ completions = << >>
    /\ banners = << >>

ContactNext ==
    \/ FormInput
    \/ ContactBlur
    \/ FormSubmit
    \/ SubmissionTimeout
    \/ BannerTimeout
    \/ ContactTick

ContactSpec == ContactInit /\ [][ContactNext]_vars

\* A due callback is run, and time passes.
ContactLiveSpec ==
    /\ ContactSpec
    /\ WF_vars(SubmissionTimeout)
    /\ WF_vars(BannerTimeout)
    /\ WF_vars(ContactTick)

(***************************************************************************)
(* Field validation on blur                                                *)
(***************************************************************************)
\* Where a field's parentNode is: a group of its own, or the form itself.
Layouts == { "groups", "form" }

\* What the fields may hold when one loses focus: one field over every string
\* of its alphabet, blanks before and after included, the others passing;
\* and the combinations in which several fields fail.
FieldNombreChars == { "a", "é", " ", "\t", "1" }
FieldEmailChars == { "a", "@", ".", " " }

FieldNombreInputs ==
    { FormData(n, ValidEmail, ValidMensaje) :
         n \in SeqsUpTo(FieldNombreChars, MaxNombreLen) }

FieldEmailInputs ==
    { FormData(ValidNombre, e, ValidMensaje) :
         e \in SeqsUpTo(FieldEmailChars, MaxEmailLen) }

Filled(layout, inputs) ==
    { [ InitialForm(layout) EXCEPT !.values = typed ] : typed \in inputs }

FieldInit ==
    /\ UIInit
    /\ TimersIdle
    /\ FormIdle
    /\ NavIdle
    /\ AnimIdle
    /\ HostIdle
    /\ \E layout \in Layouts :
          \/ form \in Filled(layout, FieldNombreInputs)
          \/ form \in Filled(layout, FieldEmailInputs)
          \/ form \in Filled(layout, MensajeInputs)
          \/ form \in Filled(layout, MixedInputs)
    /\ submissions = << >>
    /\ completions = << >>
    /\ banners = << >>

FieldBlur == FormBlur(FieldNames)

FieldNext ==
    \/ FormInput
    \/ FieldBlur

FieldSpec == FieldInit /\ [][FieldNext]_vars


(***************************************************************************)
(* Typing into a field that shows an error                                 *)
(***************************************************************************)
\* One input event on one field; the event recorded tells whether the field
\* showed an inline error when it arrived.
FieldInput ==
    \E field \in FieldNames, typed \in FilledForms :
        /\ typed[field] # form.values[field]
        /\ LET outcome ==
                 inputListener([ form EXCEPT !.values[field] = typed[field] ], field)
           IN  /\ form' = outcome.world
               /\ threw' = outcome.error
        /\ lastEvent' = Event("input", Target(field, "null"),
                              IF \E i \in 1..Len(form.fieldErrors) :
                                    form.fieldErrors[i].owner = field
                              THEN "inError" ELSE "none", 0)
        /\ UNCHANGED << now, timers, nextTimerId, submissions, completions, banners >>
        /\ UntouchedByForm

InputInit ==
    /\ UIInit
    /\ TimersIdle
    /\ FormIdle
    /\ NavIdle
    /\ AnimIdle
    /\ HostIdle
    /\ \E layout \in Layouts : form \in Filled(layout, FilledForms)
    /\ submissions = << >>
    /\ completions = << >>
    /\ banners = << >>

InputNext ==
    \/ FieldInput
    \/ FieldBlur

InputSpec == InputInit /\ [][InputNext]_vars

(***************************************************************************)
(* Documents that lack optional elements                                   *)
(***************************************************************************)
\* toggleMobileMenu where DOM.navMenu or DOM.hamburger may be null.
toggleMobileMenuOn(p, w) ==
    LET flipped == [ w EXCEPT !.state.isMenuOpen = ~ @ ] IN
    IF "navMenu" \notin p
    THEN Outcome(flipped, "DOM.navMenu.classList")
    ELSE IF "hamburger" \notin p
    THEN Outcome([ flipped EXCEPT !.DOM.navMenu = classListToggle(@, "active") ],
                 "DOM.hamburger.classList")
    ELSE Returned(toggleMobileMenu(w))

\* loadCaseStudyContent where DOM.modalContent may be null.
loadCaseStudyContentOn(p, w, projectId) ==
    IF lookupCaseStudy(projectId).kind = "record" /\ "modalContent" \notin p
    THEN Outcome(w, "DOM.modalContent.innerHTML")
    ELSE Returned(loadCaseStudyContent(w, projectId))

\* openCaseStudy where DOM.modalContent or DOM.modalClose may be null.
openCaseStudyOn(p, w, projectId) ==
    LET shown == [ w EXCEPT
                     !.state.isModalOpen    = TRUE,
                     !.state.currentProject = projectId,
                     !.DOM.modal            = @ \cup { "active" },
                     !.bodyOverflow         = "hidden" ]
        loaded == loadCaseStudyContentOn(p, shown, projectId)
    IN  IF loaded.error # NoError THEN loaded
        ELSE IF "modalClose" \notin p
        THEN Outcome(loaded.world, "DOM.modalClose.focus")
        ELSE loaded

\* closeModal where DOM.modalContent may be null.
closeModalOn(p, w) ==
    IF "modalContent" \notin p
    THEN Outcome([ w EXCEPT
                     !.state.isModalOpen    = FALSE,
                     !.state.currentProject = "null",
                     !.DOM.modal            = @ \ { "active" },
                     !.bodyOverflow         = "" ],
                 "DOM.modalContent.innerHTML")
    ELSE Returned(closeModal(w))

\* The listeners initializeNavigation and initializeModals register, given
\* the elements they found: none on a missing hamburger, none of the
\* modal's when #case-study-modal is missing.
targetListenerOn(p, w, target) ==
    CASE target.el = "hamburger" /\ "hamburger" \in p -> toggleMobileMenuOn(p, w)
      [] target.el = "navLink" /\ w.state.isMenuOpen -> toggleMobileMenuOn(p, w)
      [] target.el = "projectCard" /\ "modal" \in p ->
            openCaseStudyOn(p, w, target.project)
      [] target.el \in { "modalClose", "modalOverlay" } /\ "modal" \in p ->
            closeModalOn(p, w)
      [] OTHER -> Returned(w)

\* The document's click listener, whose condition reads DOM.hamburger and
\* DOM.navMenu only while the menu is open.
documentClickListenerOn(p, w, target) ==
    IF ~ w.state.isMenuOpen THEN Returned(w)
    ELSE IF "hamburger" \notin p THEN Outcome(w, "DOM.hamburger.contains")
    ELSE IF hamburgerContains(target) THEN Returned(w)
    ELSE IF "navMenu" \notin p THEN Outcome(w, "DOM.navMenu.contains")
    ELSE IF navMenuContains(target) THEN Returned(w)
    ELSE toggleMobileMenuOn(p, w)

\* The second listener runs whether or not the first one threw.
dispatchClickOn(p, w, target) ==
    LET first == targetListenerOn(p, w, target)
        second == documentClickListenerOn(p, first.world, target)
    IN  Outcome(second.world,
                IF first.error # NoError THEN first.error ELSE second.error)

keydownListenerOn(p, w, key) ==
    IF "modal" \in p /\ key = "Escape" /\ w.state.isModalOpen
    THEN closeModalOn(p, w)
    ELSE Returned(w)

handleResizeOn(p, w, innerWidth) ==
    IF innerWidth > MobileBreakpoint /\ w.state.isMenuOpen
    THEN toggleMobileMenuOn(p, w)
    ELSE Returned(w)

\* handleFormSubmit where the form has no submit button: querySelector
\* returns null and simulateFormSubmission throws on its first use.
handleFormSubmitOn(p, cw, sub) ==
    IF validateForm(formDataOf(cw.form)) = << >> /\ "submitButton" \notin p
    THEN Outcome(cw, "submitButton.textContent")
    ELSE Returned(handleFormSubmit(cw, sub))

\* Bound and inputs of the events sent to such documents.
MaxHostSubmits == 1

HostProjects == { "fintech-rebrand", "unknown-project" }

\* A click lands on an element the document holds.
HostTargets(p) ==
    { Target(el, "null") :
        el \in ( { "hamburger", "navMenu", "modalClose", "modalOverlay" } \cap p )
               \cup { "navLink", "page" } }
    \cup { Target("projectCard", project) : project \in HostProjects }

HostKeys == { "Escape", "Enter" }

HostWidths == { MobileBreakpoint, MobileBreakpoint + 1 }

HostForms ==
    { FormData(ValidNombre, ValidEmail, ValidMensaje), EveryRuleBroken }

HostDispatched(outcome, event) ==
    /\ state' = outcome.world.state
    /\ DOM' = outcome.world.DOM
    /\ bodyOverflow' = outcome.world.bodyOverflow
    /\ threw' = outcome.error
    /\ lastEvent' = event
    /\ UNCHANGED << prev, present, timerVars, formVars, navVars, contactVars, anim >>

HostClick ==
    \E target \in HostTargets(present) :
        HostDispatched(dispatchClickOn(present, World, target),
                       Event("click", target, "none", 0))

HostKeyDown ==
    \E key \in HostKeys :
        HostDispatched(keydownListenerOn(present, World, key),
                       Event("keydown", NoTarget, key, 0))

HostResize ==
    \E innerWidth \in HostWidths :
        HostDispatched(handleResizeOn(present, World, innerWidth),
                       Event("resize", NoTarget, "none", innerWidth))

\* The user submits the form as filled in; initializeForm registers the
\* listener only on a form that exists.
HostSubmit ==
    \E typed \in HostForms :
        /\ "contactForm" \in present
        /\ Len(submissions) < MaxHostSubmits
        /\ LET filled == [ ContactWorld EXCEPT !.form.values = typed ]
               outcome == handleFormSubmitOn(present, filled, Len(submissions) + 1)
           IN  /\ ContactInstalled(outcome.world)
               /\ threw' = outcome.error
               /\ submissions' = Append(submissions,
                     [ t |-> now,
                       valid |-> validateForm(formDataOf(filled.form)) = << >>,
                       label |-> form.button.textContent ])
        /\ lastEvent' = Event("submit", NoTarget, "none", 0)
        /\ UNCHANGED << now, completions, banners, present, state, DOM,
                        bodyOverflow, prev, inThrottle, timeoutId, calls, fnLog,
                        formVars, navVars, anim >>

\* DOMContentLoaded has run on a document that holds any subset of the
\* optional elements: every initializer tests what it needs and returns.
HostInit ==
    /\ UIInit
    /\ TimersIdle
    /\ FormIdle
    /\ NavIdle
    /\ AnimIdle
    /\ present \in SUBSET HostElements
    /\ threw = NoError
    /\ form = IF "contactForm" \in present THEN InitialForm("groups") ELSE << >>
    /\ submissions = << >>
    /\ completions = << >>
    /\ banners = << >>

HostNext ==
    \/ HostClick
    \/ HostKeyDown
    \/ HostResize
    \/ HostSubmit

HostSpec == HostInit /\ [][HostNext]_vars

(***************************************************************************)
(* The manual smooth scroll                                                *)
(***************************************************************************)
HeaderOffset == 80
ScrollDuration == 800

\* Positions are kept in 1/ScrollScale of a pixel, the unit in which
\* easeInOutQuad's results on whole milliseconds are whole numbers:
\* t = elapsed / (d / 2), and the curve is c / 2 times a square of t.
HalfDuration == ScrollDuration \div 2
ScrollScale == 2 * HalfDuration * HalfDuration

\* Bounds and inputs of the animations followed.
MaxFrameTime == 1400
FrameSteps == { 100, 250, 400 }
PageYOffsets == { 0, 300, 1000 }
TargetOffsetTops == { 80, 500, 1080 }

\* `let startTime = null`: no frame has run yet.
NullTime == -1

\* easeInOutQuad(t, b, c, d), times ScrollScale; t and d in ms, b and c in px.
easeInOutQuad(t, b, c, d) ==
    IF t < d \div 2
    THEN c * t * t + ScrollScale * b
    ELSE LET u == t - d \div 2 IN
         ScrollScale * b - c * ( u * ( u - d ) - ( d \div 2 ) * ( d \div 2 ) )

\* smoothScrollTo(targetPosition, duration) up to its call of
\* requestAnimationFrame: the closure, with one frame requested.
smoothScrollTo(pageYOffset, targetPosition, duration) ==
    [ startPosition  |-> pageYOffset,
      targetPosition |-> targetPosition,
      distance       |-> targetPosition - pageYOffset,
      duration       |-> duration,
      startTime      |-> NullTime,
      timeElapsed    |-> 0,
      scrolledTo     |-> ScrollScale * pageYOffset,
      frames         |-> 0,
      requested      |-> TRUE ]

\* animation(currentTime)
animation(a, currentTime) ==
    LET startTime == IF a.startTime = NullTime THEN currentTime ELSE a.startTime
        timeElapsed == currentTime - startTime
        run == easeInOutQuad(timeElapsed, a.startPosition, a.distance, a.duration)
    IN  [ a EXCEPT
            !.startTime   = startTime,
            !.timeElapsed = timeElapsed,
            !.scrolledTo  = run,
            !.frames      = @ + 1,
            !.requested   = timeElapsed < a.duration ]

\* The browser runs a requested frame, at a time later than the last one.
Frame ==
    \E step \in FrameSteps :
        /\ anim.requested
        /\ now + step <= MaxFrameTime
        /\ now' = now + step
        /\ anim' = animation(anim, now')
        /\ lastEvent' = Event("frame", NoTarget, "none", 0)
        /\ UNCHANGED << state, DOM, bodyOverflow, prev, inThrottle, timers,
                        timeoutId, nextTimerId, calls, fnLog, formVars, navVars,
                        contactVars, hostVars >>

\* handleSmoothScroll has found the target and, with no native smooth
\* scrolling, called smoothScrollTo(offsetTop, 800).
SmoothInit ==
    /\ UIInit
    /\ TimersIdle
    /\ FormIdle
    /\ NavIdle
    /\ ContactIdle
    /\ HostIdle
    /\ \E pageYOffset \in PageYOffsets, top \in TargetOffsetTops :
          anim = smoothScrollTo(pageYOffset, top - HeaderOffset, ScrollDuration)

SmoothNext == Frame

SmoothSpec == SmoothInit /\ [][SmoothNext]_vars

(***************************************************************************)
(* Modal controller: C1 - C5                                               *)
(***************************************************************************)
\* The Closed state of the modal, as close() leaves it.
ModalClosed(w) ==
    /\ ~ w.state.isModalOpen
    /\ w.state.currentProject = "null"
    /\ "active" \notin w.DOM.modal
    /\ w.DOM.modalContent = EmptyHTML

CardClicked ==
    lastEvent.type = "click" /\ lastEvent.target.el = "projectCard"

CloseClicked ==
    lastEvent.type = "click" /\ lastEvent.target.el \in { "modalClose", "modalOverlay" }

\* C1: opening the modal from Closed with a project id that is no key of the
\* case-study table is a no-op: the modal is still Closed, nothing is
\* rendered and the page scroll is not locked.
C1_OpenUnknownIsNoOp ==
    ( CardClicked /\ lastEvent.target.project \notin CaseStudyKeys
        /\ ModalClosed(prev) )
       => /\ ModalClosed(World)
          /\ ~ prev.state.isMenuOpen => bodyOverflow = ""

\* C2: opening the modal from Closed with a key of the case-study table
\* gives Open: isModalOpen, currentProject = the id, the modal is 'active',
\* the page scroll is locked and the content is that case study's markup;
\* the modal is in that state when the click on the card has been handled.
C2_OpenKnownRendersCaseStudy ==
    /\ \A p \in CaseStudyKeys :
          ModalClosed(World) =>
             LET w == openCaseStudy(World, p) IN
             /\ w.state.isModalOpen
             /\ w.state.currentProject = p
             /\ "active" \in w.DOM.modal
             /\ w.bodyOverflow = "hidden"
             /\ w.DOM.modalContent = caseStudyHTML(caseStudies[p])
    /\ ( CardClicked /\ lastEvent.target.project \in CaseStudyKeys
           /\ ModalClosed(prev) )
          => /\ state.isModalOpen
             /\ state.currentProject = lastEvent.target.project
             /\ "active" \in DOM.modal
             /\ DOM.modalContent = caseStudyHTML(caseStudies[state.currentProject])

C2_Witness ==
    /\ CardClicked
    /\ lastEvent.target.project = "saas-dashboard"
    /\ ModalClosed(prev)
    /\ state.isModalOpen
    /\ state.currentProject = "saas-dashboard"
    /\ bodyOverflow = "hidden"
    /\ DOM.modalContent = caseStudyHTML(cs_saas_dashboard)

\* C3: from Closed, open(projectId) followed by close() gives back the
\* initial Closed state of the modal, for every project id: currentProject
\* empty, isModalOpen false, no 'active' class, nothing rendered.
C3_OpenCloseRoundTrip ==
    /\ \A p \in ProjectIds :
          ModalClosed(World) =>
             LET w == closeModal(openCaseStudy(World, p)) IN
             /\ w.state.isModalOpen = InitialState.isModalOpen
             /\ w.state.currentProject = InitialState.currentProject
             /\ w.DOM.modal = InitialDOM.modal
             /\ w.DOM.modalContent = InitialDOM.modalContent
    /\ ( CloseClicked /\ prev.state.isModalOpen ) => ModalClosed(World)

C3_Witness ==
    /\ CloseClicked
    /\ prev.state.isModalOpen
    /\ prev.state.currentProject \in CaseStudyKeys
    /\ prev.DOM.modalContent # EmptyHTML
    /\ ModalClosed(World)

\* C4: close() is idempotent: on a Closed modal it leaves the modal Closed,
\* and in every reachable state close();close() gives the state of one close().
C4_CloseIdempotent ==
    /\ LET w1 == closeModal(World) IN
         /\ closeModal(w1) = w1
         /\ ModalClosed(World) => ModalClosed(w1)
    /\ ( CloseClicked /\ ModalClosed(prev) ) => ModalClosed(World)

C4_Witness ==
    /\ CloseClicked
    /\ ModalClosed(prev)
    /\ ModalClosed(World)
    /\ closeModal(World) = World

\* C5: Escape closes the modal only while it is Open: pressed while Open the
\* modal ends Closed; pressed while Closed, or any other key in any state,
\* the whole UI (menu flag and scroll lock included) is as it was.
C5_EscapeOnlyWhileOpen ==
    lastEvent.type = "keydown" =>
        IF lastEvent.key = "Escape" /\ prev.state.isModalOpen
        THEN ModalClosed(World)
        ELSE World = prev

C5_Witness ==
    /\ lastEvent.type = "keydown"
    /\ lastEvent.key = "Escape"
    /\ ~ prev.state.isModalOpen
    /\ prev.state.isMenuOpen
    /\ state.isMenuOpen
    /\ bodyOverflow = "hidden"

(***************************************************************************)
(* throttle and debounce: C6, C7                                           *)
(***************************************************************************)
\* The calls that come first or at least scrollThrottle after the call
\* let through before them.
RECURSIVE LetThrough(_)
LetThrough(cs) ==
    IF cs = << >> THEN << >>
    ELSE LET front == LetThrough(SubSeq(cs, 1, Len(cs) - 1))
             c == cs[Len(cs)]
         IN  IF front = << >> \/ c.t - front[Len(front)].t >= scrollThrottle
             THEN Append(front, c)
             ELSE front

WithinOfFirst(n, ms) ==
    \A i \in 1..n : calls[i].t <= calls[1].t + ms

\* C6: the throttled function runs, at the moment of the call, on the first
\* call and on every call made at least intervalMs after its last run, and
\* never otherwise: a suppressed call causes no run, not when it is made and
\* not when the window's timer expires.  Five calls within 50ms give one
\* run, a sixth 150ms after the first gives the second.
C6_ThrottleLeadingEdgeOnly ==
    /\ fnLog = LetThrough(calls)
    /\ ( Len(calls) = 5 /\ WithinOfFirst(5, 50) ) => Len(fnLog) = 1
    /\ ( Len(calls) = 6 /\ WithinOfFirst(5, 50)
           /\ calls[6].t >= calls[1].t + 150 ) => Len(fnLog) = 2

C6_Witness ==
    /\ Len(calls) = 6
    /\ WithinOfFirst(5, 50)
    /\ calls[5].t > calls[1].t
    /\ calls[6].t = calls[1].t + 150
    /\ Len(fnLog) = 2
    /\ fnLog[2].args = 6
    /\ timers # {}

PendingDebounce == { t \in timers : t.kind = "debounce" }

\* C7: the debounced function runs exactly when delayMs has elapsed after a
\* call with no further call in between, with that call's arguments; a call
\* followed by another within delayMs never leads to a run with its own
\* arguments; at most one timer is pending at any time.
C7_DebounceRunsLastCallOnly ==
    /\ \A i \in 1..Len(fnLog) :
          LET k == fnLog[i].args IN
          /\ k \in 1..Len(calls)
          /\ fnLog[i].t = calls[k].t + debounceDelay
          /\ k < Len(calls) => calls[k + 1].t >= fnLog[i].t
          /\ \A j \in 1..Len(fnLog) : i < j => k < fnLog[j].args
    /\ \A k \in 1..Len(calls) :
          ( \/ k < Len(calls) /\ calls[k + 1].t - calls[k].t >= debounceDelay
            \/ k = Len(calls) /\ now > calls[k].t + debounceDelay )
          => \E i \in 1..Len(fnLog) : fnLog[i].args = k
    /\ Cardinality(PendingDebounce) <= 1

C7_Witness ==
    /\ Len(calls) = 3
    /\ calls[2].t - calls[1].t < debounceDelay
    /\ calls[2].t > calls[1].t
    /\ calls[3].t - calls[2].t >= debounceDelay
    /\ Len(fnLog) = 2
    /\ fnLog[1].args = 2
    /\ fnLog[2].args = 3

(***************************************************************************)
(* validateForm: C8, C9, C10                                               *)
(***************************************************************************)
Reported(message) == \E i \in 1..Len(errors) : errors[i] = message

\* Latin letters (a-z, A-Z, the accented vowels, ñ/Ñ) and the space.
LettersAndSpaces ==
    LowerCase \cup UpperCase
    \cup { "á", "é", "í", "ó", "ú", "Á", "É", "Í", "Ó", "Ú" }
    \cup { "ñ", "Ñ" }
    \cup { " " }

OnlyLettersAndSpaces(s) == \A i \in 1..Len(s) : s[i] \in LettersAndSpaces

\* C8: a name gets no name error exactly when it has at least 2 characters
\* and consists of Latin letters and spaces only; a shorter name gets the
\* length message, any other the letters-and-spaces message.
C8_NameRule ==
    vpc = "done" =>
       /\ ( ~ Reported(NombreLengthMessage) /\ ~ Reported(NombreLettersMessage) )
             <=> ( Len(data.nombre) >= 2 /\ OnlyLettersAndSpaces(data.nombre) )
       /\ Reported(NombreLengthMessage) <=> Len(data.nombre) < 2
       /\ Reported(NombreLettersMessage)
             <=> ( Len(data.nombre) >= 2 /\ ~ OnlyLettersAndSpaces(data.nombre) )

Positions(s, c) == { i \in 1..Len(s) : s[i] = c }

\* local@domain.tld: one '@', no white space, something before the '@', and
\* after it a '.' with something on both sides.
HasEmailShape(s) ==
    /\ Cardinality(Positions(s, "@")) = 1
    /\ \A i \in 1..Len(s) : s[i] \notin { " ", "\t" }
    /\ \E at \in Positions(s, "@") :
          /\ at > 1
          /\ \E dot \in Positions(s, ".") : at + 1 < dot /\ dot < Len(s)

\* C9: an email without '@', or without a '.' after the '@', gets the email
\* error; an email passes exactly when it has the shape local@domain.tld.
\* "a@b.co" passes, "a@b" and "a" fail.
C9_EmailRule ==
    vpc = "done" =>
       /\ Positions(data.email, "@") = {} => Reported(EmailMessage)
       /\ ( \A at \in Positions(data.email, "@") :
               \A dot \in Positions(data.email, ".") : dot < at )
             => Reported(EmailMessage)
       /\ ~ Reported(EmailMessage) <=> HasEmailShape(data.email)
       /\ data.email = << "a", "@", "b", ".", "c", "o" >> => ~ Reported(EmailMessage)
       /\ data.email = << "a", "@", "b" >> => Reported(EmailMessage)
       /\ data.email = << "a" >> => Reported(EmailMessage)

C9_Witness ==
    /\ vpc = "done"
    /\ data.email = << "a", ".", "@", "b", ".", "a" >>
    /\ errors = << >>

\* C10: a message gets the message error exactly when its length is below
\* 10; a message of length 10 passes.
C10_MessageRule ==
    vpc = "done" =>
       /\ Reported(MensajeMessage) <=> Len(data.mensaje) < 10
       /\ Len(data.mensaje) = 10 => ~ Reported(MensajeMessage)

C10_Witness ==
    /\ vpc = "done"
    /\ Len(data.mensaje) = 10
    /\ errors = << >>

(***************************************************************************)
(* validateForm as a whole: C11                                            *)
(***************************************************************************)
\* The messages of the rules a form violates, in the order name, email,
\* message.
ExpectedErrors(d) ==
    ( IF Len(d.nombre) < 2 THEN << NombreLengthMessage >>
      ELSE IF ~ OnlyLettersAndSpaces(d.nombre) THEN << NombreLettersMessage >>
      ELSE << >> )
    \o ( IF ~ HasEmailShape(d.email) THEN << EmailMessage >> ELSE << >> )
    \o ( IF Len(d.mensaje) < 10 THEN << MensajeMessage >> ELSE << >> )

\* C11: validate returns one message per failed rule, in the order name,
\* email, message, and the empty sequence exactly when no rule is violated.
C11_OneMessagePerFailedRule ==
    vpc = "done" =>
       /\ errors = ExpectedErrors(data)
       /\ errors = << >> <=>
             ( /\ Len(data.nombre) >= 2 /\ OnlyLettersAndSpaces(data.nombre)
               /\ HasEmailShape(data.email)
               /\ Len(data.mensaje) >= 10 )

(***************************************************************************)
(* Menu and modal: C15, C19                                                *)
(***************************************************************************)
HamburgerClicked ==
    lastEvent.type = "click" /\ lastEvent.target.el = "hamburger"

MenuShownActive(w) ==
    "active" \in w.DOM.navMenu /\ "active" \in w.DOM.hamburger

\* C15: toggleMenu flips isMenuOpen; after any sequence of menu operations
\* isMenuOpen is true exactly when the menu panel and the hamburger both
\* are 'active'; right after a toggle the page scroll is locked exactly
\* when isMenuOpen is true.
C15_MenuFlagMatchesStyling ==
    /\ state.isMenuOpen <=> MenuShownActive(World)
    /\ state.isMenuOpen <=> ( "active" \in DOM.navMenu \/ "active" \in DOM.hamburger )
    /\ LET w == toggleMobileMenu(World) IN
         /\ w.state.isMenuOpen = ~ state.isMenuOpen
         /\ w.state.isMenuOpen <=> MenuShownActive(w)
         /\ w.bodyOverflow = "hidden" <=> w.state.isMenuOpen
    /\ HamburgerClicked =>
         /\ state.isMenuOpen = ~ prev.state.isMenuOpen
         /\ bodyOverflow = "hidden" <=> state.isMenuOpen

C15_Witness ==
    /\ HamburgerClicked
    /\ prev.state.isMenuOpen
    /\ ~ state.isMenuOpen
    /\ DOM.navMenu = {}
    /\ DOM.hamburger = {}
    /\ DOM.bars = "bars"
    /\ bodyOverflow = ""

ModalPart(w) ==
    << w.state.isModalOpen, w.state.currentProject, w.DOM.modal, w.DOM.modalContent >>

MenuPart(w) ==
    << w.state.isMenuOpen, w.DOM.navMenu, w.DOM.hamburger, w.DOM.bars >>

\* C19: menu and modal are tracked independently: toggleMenu leaves
\* isModalOpen, currentProject and the modal's content as they are, open
\* and close leave isMenuOpen and the menu's styling as they are, and the
\* menu can be open while the modal is Open.
C19_MenuAndModalIndependent ==
    /\ ModalPart(toggleMobileMenu(World)) = ModalPart(World)
    /\ \A p \in ProjectIds : MenuPart(openCaseStudy(World, p)) = MenuPart(World)
    /\ MenuPart(closeModal(World)) = MenuPart(World)
    /\ HamburgerClicked => ModalPart(World) = ModalPart(prev)

C19_Witness ==
    /\ state.isMenuOpen
    /\ state.isModalOpen
    /\ MenuShownActive(World)
    /\ "active" \in DOM.modal
    /\ HamburgerClicked
    /\ prev.state.isModalOpen

(***************************************************************************)
(* Active-section highlighting: C16                                        *)
(***************************************************************************)
\* The sections whose range [top - 100, top - 100 + height) holds the offset.
MatchingSections ==
    { i \in 1..Len(page.sections) :
        /\ scrollY >= page.sections[i].offsetTop - 100
        /\ scrollY < page.sections[i].offsetTop - 100 + page.sections[i].clientHeight }

LastMatching == CHOOSE i \in MatchingSections : \A j \in MatchingSections : j <= i

\* C16: after updateActiveSection the current section is the last one in
\* document order whose range holds the scroll offset; a nav link is active
\* exactly when its section attribute names it, and no link is active when
\* no section matches.
C16_ActiveLinkIsLastMatchingSection ==
    ( lastEvent.type = "scroll" /\ lastEvent.key = "handled" ) =>
       IF MatchingSections = {}
       THEN activeLinks = {}
       ELSE activeLinks =
              { i \in 1..Len(page.links) :
                  page.links[i] = page.sections[LastMatching].id }

C16_Witness ==
    /\ lastEvent.type = "scroll"
    /\ lastEvent.key = "handled"
    /\ Cardinality(MatchingSections) = 2
    /\ activeLinks = { 2 }

(***************************************************************************)
(* Form submission: C12, C13, C14, C20                                     *)
(***************************************************************************)
SubmitStep == Len(submissions') = Len(submissions) + 1

IsBanner(node) == node.class = "form-success"

BannersIn(f) == SelectSeq(f.children, IsBanner)

PendingCompletions == { t \in timers : t.kind = "completion" }

\* C12: a submit whose data validate rejects shows exactly validate's
\* messages in one error block at the top of the form (three for A1 / bad /
\* short), schedules no completion, and leaves the button, the fields and
\* the banners as they are; no completion ever belongs to such a submit.
C12_InvalidSubmitAborts ==
    /\ [][ ( SubmitStep /\ validateForm(formDataOf(form)) # << >> ) =>
             LET errs == validateForm(formDataOf(form)) IN
             /\ form'.children =
                   << FormNode("form-error", 0, errs) >>
                   \o SelectSeq(form.children, LAMBDA node : ~ IsFormError(node))
             /\ Len(SelectSeq(form'.children, IsFormError)) = 1
             /\ formDataOf(form) = EveryRuleBroken =>
                   Len(form'.children[1].items) = 3
             /\ timers' = timers
             /\ form'.button = form.button
             /\ form'.values = form.values
             /\ BannersIn(form') = BannersIn(form)
             /\ completions' = completions ]_vars
    /\ [] ( \A i \in 1..Len(completions) : submissions[completions[i].sub].valid )

C12_Witness ==
    /\ lastEvent.type = "submit"
    /\ Len(submissions) = 2
    /\ ~ submissions[1].valid
    /\ ~ submissions[2].valid
    /\ formDataOf(form) = EveryRuleBroken
    /\ Len(form.children) = 1
    /\ Len(form.children[1].items) = 3
    /\ ~ form.button.disabled
    /\ timers = {}

\* C13: a submit whose data validate accepts disables the button and changes
\* its label at once, and its completion, 1500ms later, shows a success
\* banner, resets the fields, leaves no error node and gives the button
\* back enabled with its original label.
C13_ValidSubmitCompletes ==
    /\ ( lastEvent.type = "submit" /\ submissions[Len(submissions)].valid ) =>
          form.button = [ textContent |-> SendingLabel, disabled |-> TRUE ]
    /\ \A i \in 1..Len(completions) :
          LET c == completions[i] IN
          /\ c.t = submissions[c.sub].t + SubmitDelay
          /\ c.banner
          /\ c.reset
          /\ c.errorNodes = 0
          /\ c.button = [ textContent |-> OriginalLabel, disabled |-> FALSE ]

\* C14: a success banner stays in the form until 5000ms after it appeared,
\* whatever happens in between, and is then removed.
C14_BannerLivesFiveSeconds ==
    /\ [] ( \A i \in 1..Len(banners) :
              LET b == banners[i] IN
              /\ b.removedAt = -1 <=>
                    \E j \in 1..Len(form.children) :
                       IsBanner(form.children[j]) /\ form.children[j].id = b.id
              /\ b.removedAt # -1 => b.removedAt = b.shownAt + BannerDelay
              /\ b.removedAt = -1 => now <= b.shownAt + BannerDelay )
    /\ \A i \in 1..MaxSubmits :
          ( Len(banners) >= i ) ~> ( Len(banners) >= i /\ banners[i].removedAt # -1 )

C14_Witness ==
    /\ Len(banners) = 2
    /\ banners[1].removedAt = banners[1].shownAt + BannerDelay
    /\ banners[2].removedAt = -1
    /\ banners[2].shownAt > banners[1].shownAt
    /\ banners[2].shownAt < banners[1].removedAt
    /\ Len(BannersIn(form)) = 1

\* C20: a valid submit that arrives while an earlier one is pending is
\* accepted like any other: it schedules its own completion, and both
\* completions run, each logging, showing a banner and resetting the form.
C20_OverlappingSubmitsBothComplete ==
    /\ [][ ( SubmitStep /\ validateForm(formDataOf(form)) = << >> ) =>
             \E t \in timers' \ timers :
                /\ t.kind = "completion"
                /\ t.args.sub = Len(submissions')
                /\ t.due = now + SubmitDelay ]_vars
    /\ [] ( /\ \A k \in 1..Len(submissions) :
                  submissions[k].valid =>
                     \/ \E t \in PendingCompletions : t.args.sub = k
                     \/ \E i \in 1..Len(completions) : completions[i].sub = k
            /\ Len(form.console) = Len(completions)
            /\ Len(banners) = Len(completions)
            /\ \A i \in 1..Len(completions) :
                  /\ completions[i].logged = i
                  /\ completions[i].reset
                  /\ completions[i].banner )

C20_Witness ==
    /\ Len(completions) = 2
    /\ submissions[1].valid
    /\ submissions[2].valid
    /\ submissions[2].t > submissions[1].t
    /\ submissions[2].t < submissions[1].t + SubmitDelay
    /\ Len(form.console) = 2
    /\ Len(BannersIn(form)) = 2
    /\ form.values = EmptyValues

(***************************************************************************)
(* Field validation: C18                                                   *)
(***************************************************************************)
FieldMessages(field) ==
    CASE field = "nombre" -> { NombreLengthMessage, NombreLettersMessage }
      [] field = "email" -> { EmailMessage }
      [] field = "mensaje" -> { MensajeMessage }

\* validateForm, given the trimmed values of the form, reports an error for
\* the field.
ReportedFor(f, field) ==
    LET errs == validateForm(formDataOf(f)) IN
    \E i \in 1..Len(errs) : errs[i] \in FieldMessages(field)

InlineErrors(f, field) ==
    SelectSeq(f.fieldErrors, LAMBDA node : node.owner = field)

\* C18: a blur on a field shows the field's inline error and reddens its
\* border exactly when validateForm reports an error for that field on the
\* trimmed values; otherwise the field is left without inline error and with
\* its border restored; no field ever has two inline errors.
C18_FieldRuleMatchesFormRule ==
    /\ [][ lastEvent'.type = "blur" =>
             LET field == lastEvent'.target.el IN
             IF ReportedFor(form, field)
             THEN /\ Len(InlineErrors(form', field)) = 1
                  /\ form'.borders[field] = ErrorColor
             ELSE /\ InlineErrors(form', field) = << >>
                  /\ form'.borders[field] = "" ]_vars
    /\ [] ( \A field \in FieldNames : Len(InlineErrors(form, field)) <= 1 )

C18_Witness ==
    /\ lastEvent.type = "blur"
    /\ lastEvent.target.el = "email"
    /\ form.values.email = << " ", "a", "@", "a", ".", "a" >>
    /\ form.fieldErrors = << >>
    /\ form.borders.email = ""

(***************************************************************************)
(* Missing elements: C17                                                   *)
(***************************************************************************)
\* C17: whichever optional elements the document lacks, no listener raises
\* an error (so none changes a flag and then fails).
C17_MissingElementsRaiseNoError == threw = NoError

(***************************************************************************)
(* Scroll lock: C21                                                        *)
(***************************************************************************)
ScrollLocked == bodyOverflow = "hidden"

\* C21: page scroll is locked whenever the modal is Open and whenever the
\* menu is open, and unlocked only when both are closed.
C21_ScrollLockedWhileMenuOrModalOpen ==
    /\ state.isModalOpen => ScrollLocked
    /\ state.isMenuOpen => ScrollLocked
    /\ ~ ScrollLocked => ( ~ state.isMenuOpen /\ ~ state.isModalOpen )

(***************************************************************************)
(* Modal consistency: C22                                                  *)
(***************************************************************************)
\* C22: the modal is Open exactly when currentProject is a key of the
\* case-study table; Open, it shows the markup of that case study, and
\* Closed, it shows nothing.
C22_ModalStateConsistent ==
    /\ state.isModalOpen <=> state.currentProject \in CaseStudyKeys
    /\ state.isModalOpen =>
          /\ state.currentProject \in CaseStudyKeys
          /\ DOM.modalContent = caseStudyHTML(caseStudies[state.currentProject])
    /\ ~ state.isModalOpen => DOM.modalContent = EmptyHTML

(***************************************************************************)
(* Submissions at rest, banners: C23, C25                                  *)
(***************************************************************************)
\* C23: whenever no simulated submission is pending, the submit button is
\* enabled and shows the label it had before the first submission.
C23_ButtonRestoredWhenIdle ==
    PendingCompletions = {} =>
        form.button = [ textContent |-> OriginalLabel, disabled |-> FALSE ]

\* C25: the form never holds more than one success banner.
C25_AtMostOneBanner == Len(BannersIn(form)) <= 1

(***************************************************************************)
(* One click, one change of the menu: C24                                  *)
(***************************************************************************)
Flipped(before, after) ==
    IF before.state.isMenuOpen # after.state.isMenuOpen THEN 1 ELSE 0

\* How often the listeners a click reaches flip isMenuOpen: the listener of
\* the target first, the document's after it.
MenuFlips(w, target) ==
    LET first == targetListener(w, target) IN
    Flipped(w, first) + Flipped(first, documentClickListener(first, target))

\* C24: the listeners a click passes through flip isMenuOpen at most once:
\* exactly once for a click on the hamburger, for a click on a nav link
\* while the menu is open and for a click outside the hamburger and the
\* menu panel while the menu is open, and not at all for a click off the
\* hamburger while the menu is closed.
C24_OneClickOneMenuChange ==
    lastEvent.type = "click" =>
        LET target == lastEvent.target
            flips == MenuFlips(prev, target)
            outside == ~ hamburgerContains(target) /\ ~ navMenuContains(target)
        IN  /\ flips <= 1
            /\ World = dispatchClick(prev, target)
            /\ hamburgerContains(target) =>
                  flips = 1 /\ state.isMenuOpen = ~ prev.state.isMenuOpen
            /\ ( target.el = "navLink" /\ prev.state.isMenuOpen ) =>
                  flips = 1 /\ ~ state.isMenuOpen
            /\ ( outside /\ prev.state.isMenuOpen ) =>
                  flips = 1 /\ ~ state.isMenuOpen
            /\ ( ~ hamburgerContains(target) /\ ~ prev.state.isMenuOpen ) =>
                  flips = 0 /\ ~ state.isMenuOpen

C24_Witness ==
    /\ lastEvent.type = "click"
    /\ lastEvent.target.el = "hamburger"
    /\ prev.state.isMenuOpen
    /\ prev.state.isModalOpen
    /\ ~ state.isMenuOpen
    /\ MenuFlips(prev, lastEvent.target) = 1

(***************************************************************************)
(* Input on a field in error: C26                                          *)
(***************************************************************************)
\* C26: an input event on a field that shows an inline error raises no
\* error and leaves the field without inline error node and with its border
\* restored.
C26_InputClearsFieldError ==
    ( lastEvent.type = "input" /\ lastEvent.key = "inError" ) =>
        /\ threw = NoError
        /\ InlineErrors(form, lastEvent.target.el) = << >>
        /\ form.borders[lastEvent.target.el] = ""

(***************************************************************************)
(* Smooth scroll: C27                                                      *)
(***************************************************************************)
\* C27: the animation requests frames until the first frame whose elapsed
\* time is at least 800ms, and the position that last frame scrolls to is
\* targetPosition, whatever its elapsed time.
C27_SmoothScrollEndsOnTarget ==
    /\ anim.requested <=> anim.timeElapsed < ScrollDuration
    /\ ~ anim.requested => anim.scrolledTo = ScrollScale * anim.targetPosition
====
